---- MODULE Spec2Model ----
(***************************************************************************)
(* The staking engine of the WolfBet dice bot, in its two variants:        *)
(*   bot.py   (wager ceiling max_bet, last-bet start for three strategies) *)
(*   bot1.py  (no ceiling, cover-loss, dalembert, chance override)         *)
(* cfg.variant selects the file a behaviour is a run of.                   *)
(*                                                                         *)
(* Amounts are integers in units of the minimum denomination (1e-8), so    *)
(* round(x, 8) is rounding to the nearest integer (ties to even).          *)
(* Chances and thresholds are integers in hundredths of a percent point.   *)
(* Factors (multiplier, raise ranges) are integers in hundredths.          *)
(* random.uniform(a, b) is a + (b - a) * d for a drawn d in {0, 1}: the    *)
(* two ends of the interval.                                               *)
(***************************************************************************)
EXTENDS Integers, Sequences, FiniteSets, TLC

\* ------------------------------------------------------------- bounds
\* Resolved rounds explored in the first session run / in later runs.
MaxRounds == 4
MaxRoundsLater == 1
\* Session runs explored (run() calls of the restart loop).
MaxSessions == 2

\* ------------------------------------------------------------ helpers
Max(a, b) == IF a >= b THEN a ELSE b
Min(a, b) == IF a <= b THEN a ELSE b

\* round(n / d, 0) for d > 0: nearest integer, ties to the even one.
RoundDiv(n, d) ==
    LET q == n \div d
        r == n % d
    IN  IF 2 * r < d THEN q
        ELSE IF 2 * r > d THEN q + 1
        ELSE IF q % 2 = 0 THEN q ELSE q + 1

\* random.uniform(lo, hi) on factors in hundredths, applied to an amount and
\* rounded: round(start * factor, 8).
RaiseBy(start, lo, hi, d) == RoundDiv(start * (lo + (hi - lo) * d), 100)

\* round(random.uniform(lo, hi), 8) on amounts.
UniformAmount(lo, hi, d) == lo + (hi - lo) * d

\* The draws of random.uniform explored: the two ends of the interval.
Draws == {0, 1}

\* WolfBetBot._cap
_cap(val, lo, hi) == Max(lo, Min(hi, val))

\* ------------------------------------------------------------- config
KnownStrategies ==
    {"martingale", "fibonacci", "flat", "jackpot_hunter", "high_risk_pulse",
     "randomized"}
\* "dalembert" is a strategy of bot1.py only; "paroli" is a name of neither.
StrategyNames == KnownStrategies \cup {"dalembert", "paroli"}

\* (auto_strategy_change, strategy_switch_mode, strategy_cycle, loss_streak_trigger)
Switching(auto, mode, cycle, trigger) ==
    [auto |-> auto, mode |-> mode, cycle |-> cycle, trigger |-> trigger]

Range(seq) == {seq[i] : i \in 1 .. Len(seq)}

MakeCfg(v, s, sw, mb, mult, rmode, rule) ==
    [variant |-> v,
     base_bet |-> 100,
     multiplier |-> mult,
     max_bet |-> mb,
     chance |-> 4950,
     rule_mode |-> rule,
     take_profit |-> 300,
     stop_loss |-> 0 - 300,
     auto_start |-> TRUE,
     strategy |-> s,
     auto_strategy_change |-> sw.auto,
     strategy_cycle |-> sw.cycle,
     strategy_switch_mode |-> sw.mode,
     loss_streak_trigger |-> sw.trigger,
     jackpot_chance |-> 100,
     jackpot_raise_min |-> 102,
     jackpot_raise_max |-> 105,
     high_risk_chance |-> 500,
     high_risk_raise_min |-> 110,
     high_risk_raise_max |-> 120,
     high_risk_interval |-> 2,
     randomized_mode |-> rmode,
     randomized_min_mult |-> 102,
     randomized_max_mult |-> 150]

Variants == {"bot", "bot1"}
\* bot1.py reads no max_bet: 0 stands for its absence.
Ceilings(v) == IF v = "bot" THEN {0, 250, 50} ELSE {0}
NamesOf(v) == IF v = "bot" THEN KnownStrategies \cup {"dalembert"} ELSE StrategyNames

\* Every strategy name on its own, with the default cycle [strategy] and
\* auto_strategy_change off; the multiplier, the randomized mode and the
\* rule mode are varied under the strategy whose runs read them; a ceiling
\* below the base bet is explored under flat.
PlainConfigs ==
    {MakeCfg(t[1], t[2], Switching(FALSE, "on_win", <<t[2]>>, 2), t[3], t[4], t[5], t[6]) :
        t \in {u \in Variants \X StrategyNames \X {0, 250, 50} \X {200, 150}
                     \X {"multiplier", "uniform"} \X {"auto", "over", "under"} :
                /\ u[2] \in NamesOf(u[1])
                /\ u[3] \in Ceilings(u[1])
                /\ u[3] = 50 => u[2] = "flat"
                /\ u[4] # 200 => u[2] = "martingale" /\ u[3] = 0
                /\ u[5] # "multiplier" => u[2] = "randomized" /\ u[1] = "bot"
                /\ u[6] # "under" => u[2] = "flat" /\ u[3] = 0}}

\* Strategy cycles, entered at their first strategy or from a strategy
\* outside the cycle, in both switch modes.
Cycles == {<<"fibonacci", "flat">>, <<"jackpot_hunter", "martingale", "paroli">>}
CycleConfigs ==
    {MakeCfg(t[1], t[2], Switching(TRUE, t[3], t[4], t[5]), t[6], 200, "multiplier", "under") :
        t \in {u \in Variants \X StrategyNames \X {"on_win", "on_loss_streak"}
                     \X Cycles \X {1, 2} \X {0, 250} :
                /\ u[2] \in {u[4][1], "high_risk_pulse"}
                /\ u[3] = "on_win" => u[5] = 2
                /\ u[6] = (IF u[1] = "bot" THEN 250 ELSE 0)}}

\* The default cycle [strategy] with switching on: the strategy follows itself.
SelfCycleConfigs ==
    {MakeCfg(t[1], t[2], Switching(TRUE, t[3], <<t[2]>>, 2), 0, 200, "multiplier", "under") :
        t \in Variants \X {"martingale", "fibonacci", "jackpot_hunter"}
                \X {"on_win", "on_loss_streak"}}

\* Out-of-range tunables, which the constructor accepts as they are: a
\* multiplier of 0 under martingale, a pulse interval of 0 under high_risk_pulse.
DegenerateConfigs ==
    {MakeCfg(v, "martingale", Switching(FALSE, "on_win", <<"martingale">>, 2), 0, 0,
             "multiplier", "under") : v \in Variants}
    \cup
    {[MakeCfg(v, "high_risk_pulse", Switching(FALSE, "on_win", <<"high_risk_pulse">>, 2),
              0, 200, "multiplier", "under") EXCEPT !.high_risk_interval = 0] :
        v \in Variants}

\* bot.py: the randomized strategy in uniform mode entered through the cycle
\* with a wager above the base bet (martingale raised it before the switch).
UniformEntryConfigs ==
    {MakeCfg("bot", "martingale",
             Switching(TRUE, "on_win", <<"martingale", "randomized">>, 2), 0, 200,
             "uniform", "under")}

\* bot1.py: martingale with a multiplier of 3, whose raise exceeds what
\* cover-loss asks for.
SteepConfigs ==
    {MakeCfg("bot1", "martingale", Switching(FALSE, "on_win", <<"martingale">>, 2),
             0, 300, "multiplier", "under")}

\* bot.py: jackpot_hunter under a ceiling of 104, which its small raises
\* reach within a few rounds.
NearCeilingConfigs ==
    {MakeCfg("bot", "jackpot_hunter", Switching(FALSE, "on_win", <<"jackpot_hunter">>, 2),
             104, 200, "multiplier", "under")}

\* The configurations explored.
Configs ==
    PlainConfigs \cup CycleConfigs \cup SelfCycleConfigs \cup DegenerateConfigs
        \cup UniformEntryConfigs \cup SteepConfigs \cup NearCeilingConfigs

\* -------------------------------------------------------------- state
VARIABLES
    cfg,                \* self.cfg and the settings read from it (immutable)
    pc,                 \* "constructed" | "running" | "stop_loss" | "take_profit" | "no_balance" | "error"
    session_profit,
    current_bet,
    bet_history,        \* rows [next_bet, wl, profit]; target and result columns echo inputs
    loss_streak_total,
    loss_streak_count,
    session_count,
    current_strategy,
    strategy_index,     \* 0-based, as in the code
    last_loss_amount,
    last_outcome,       \* "None" | "win" | "lose"
    override_chance,    \* <<>> for None, <<c>> for a chance c
    fibo_seq,
    total_bets,
    win_count,
    lose_count,
    jackpot_streak,     \* bot.py only
    high_risk_streak,   \* bot.py only
    last_bet_amount,    \* bot.py only
    rounding,           \* the collaborator's rounding: units it charges less than the amount sent
    placed              \* this run's last call of place_dice_bet: <<>> or <<[amount, rule, bet_value, ok]>>

ledger == <<session_profit, total_bets, win_count, lose_count, loss_streak_total,
            loss_streak_count, last_loss_amount, last_outcome, bet_history>>
memory == <<fibo_seq, jackpot_streak, high_risk_streak, last_bet_amount>>
selector == <<current_strategy, strategy_index>>
vars == <<cfg, rounding, pc, current_bet, override_chance, placed, session_count,
          ledger, memory, selector>>

\* index of the first occurrence of s in seq, 0-based; the caller checks membership
IndexOf(seq, s) == (CHOOSE i \in 1 .. Len(seq) : seq[i] = s /\ \A j \in 1 .. (i - 1) : seq[j] # s) - 1

\* WolfBetBot.__init__: the runtime state after construction.
Init ==
    /\ cfg \in Configs
    /\ rounding \in {0, 1}
    /\ pc = "constructed"
    /\ session_profit = 0
    /\ current_bet = cfg.base_bet
    /\ bet_history = <<>>
    /\ loss_streak_total = 0
    /\ loss_streak_count = 0
    /\ session_count = 0
    /\ current_strategy = cfg.strategy
    /\ strategy_index = IF cfg.strategy \in Range(cfg.strategy_cycle)
                        THEN IndexOf(cfg.strategy_cycle, cfg.strategy) ELSE 0
    /\ last_loss_amount = IF cfg.variant = "bot" THEN 0 ELSE cfg.base_bet
    /\ last_outcome = "None"
    /\ override_chance = <<>>
    /\ fibo_seq = <<cfg.base_bet>>
    /\ total_bets = 0
    /\ win_count = 0
    /\ lose_count = 0
    /\ jackpot_streak = 0
    /\ high_risk_streak = 0
    /\ last_bet_amount = 0
    /\ placed = <<>>

\* ------------------------------------------------- collaborator inputs
\* Outcome.state of a usable result: a missing or unrecognised state reads as
\* "None" (the code compares it with "win" and "lose" only).
ServerStates == {"win", "lose", "None"}
\* Outcome.profit of a winning round.
Payouts == {50, 150}
\* Outcome.amount_charged: the amount sent, less the collaborator's rounding.
Charged(b) == {IF b > rounding THEN b - rounding ELSE b}
\* random.randint(0, 1) of the auto rule mode
Coins == IF cfg.rule_mode = "auto" THEN {0, 1} ELSE {0}
\* the strategies that draw a random factor
DrawsFor(s) ==
    IF s \in {"jackpot_hunter", "high_risk_pulse", "randomized"} THEN Draws ELSE {0}

\* ------------------------------------------------------ Threshold Mapper
\* Mutant of chance_to_rule_and_threshold: the over rule given the chance
\* itself as its threshold.
chance_to_rule_and_threshold_same(chance_override, coin) ==
    LET ch0 == IF chance_override # <<>> THEN chance_override[1] ELSE cfg.chance
        ch == _cap(ch0, 1, 9999)
        under == [rule |-> "under", bet_value |-> _cap(ch, 1, 9999)]
        over == [rule |-> "over", bet_value |-> _cap(ch, 1, 9999)]
    IN  IF cfg.rule_mode = "over" THEN over
        ELSE IF cfg.rule_mode = "under" THEN under
        ELSE IF coin = 1 THEN under ELSE over

\* WolfBetBot.chance_to_rule_and_threshold (the same in both files)
chance_to_rule_and_threshold(chance_override, coin) ==
    LET ch0 == IF chance_override # <<>> THEN chance_override[1] ELSE cfg.chance
        ch == _cap(ch0, 1, 9999)
        under == [rule |-> "under", bet_value |-> _cap(ch, 1, 9999)]
        over == [rule |-> "over", bet_value |-> _cap(10000 - ch, 1, 9999)]
    IN  IF cfg.rule_mode = "over" THEN over
        ELSE IF cfg.rule_mode = "under" THEN under
        ELSE IF coin = 1 THEN under ELSE over

\* WolfBetBot.place_dice_bet: the win chance the payload's multiplier is
\* computed from.
win_chance(rule, bet_value) ==
    Max(IF rule = "under" THEN bet_value ELSE 10000 - bet_value, 1)

\* ----------------------------------------------------- Wager Calculator
\* Mutant of strat_martingale: a win does not bring the bet back to the base.
strat_martingale_keep(win, last_bet) ==
    IF win THEN last_bet ELSE RoundDiv(last_bet * cfg.multiplier, 100)

\* WolfBetBot.strat_martingale (the same in both files)
strat_martingale(win, last_bet) ==
    IF win THEN cfg.base_bet ELSE RoundDiv(last_bet * cfg.multiplier, 100)

\* Mutant of strat_fibonacci: the sequence starts one term late ([base, 2 base, ...]).
strat_fibonacci_late(win, seq) ==
    IF win THEN [bet |-> cfg.base_bet, fibo_seq |-> <<cfg.base_bet>>]
    ELSE LET n == Len(seq)
             grown == Append(seq, seq[n] + (IF n < 2 THEN seq[n] ELSE seq[n - 1]))
         IN  [bet |-> grown[Len(grown)], fibo_seq |-> grown]

\* WolfBetBot.strat_fibonacci (the same in both files): the bet and the new fibo_seq
strat_fibonacci(win, seq) ==
    IF win THEN [bet |-> cfg.base_bet, fibo_seq |-> <<cfg.base_bet>>]
    ELSE LET n == Len(seq)
             grown == IF n < 2 THEN Append(seq, cfg.base_bet)
                      ELSE Append(seq, seq[n] + seq[n - 1])
         IN  [bet |-> grown[Len(grown)], fibo_seq |-> grown]

\* Mutant of strat_flat: the bet is raised after a loss.
strat_flat_raise(win, last_bet) == IF win THEN cfg.base_bet ELSE last_bet * 2

\* WolfBetBot.strat_flat (the same in both files)
strat_flat(win, last_bet) == cfg.base_bet

\* Mutant of get_starting_bet_for_strategy: every strategy starts from the base bet.
get_starting_bet_for_strategy_base(strategy, lba) == cfg.base_bet

\* bot.py WolfBetBot.get_starting_bet_for_strategy; lba is self.last_bet_amount
get_starting_bet_for_strategy(strategy, lba) ==
    IF strategy \in {"jackpot_hunter", "high_risk_pulse", "randomized"}
    THEN (IF lba > 0 THEN lba ELSE cfg.base_bet)
    ELSE cfg.base_bet

\* Mutant of strat_jackpot_hunter: an outcome other than "lose" brings the
\* bet back to the base bet.
strat_jackpot_hunter_reset(lo, lba, js, d) ==
    LET start == IF lba > 0 THEN lba ELSE cfg.base_bet
    IN  IF lo = "lose"
        THEN [bet |-> IF js + 1 = 1 THEN start
                      ELSE RaiseBy(start, cfg.jackpot_raise_min, cfg.jackpot_raise_max, d),
              jackpot_streak |-> js + 1]
        ELSE [bet |-> cfg.base_bet, jackpot_streak |-> 0]

\* bot.py WolfBetBot.strat_jackpot_hunter: the bet and the new jackpot_streak
strat_jackpot_hunter(lo, lba, js, d) ==
    LET start == IF lba > 0 THEN lba ELSE cfg.base_bet
    IN  IF lo = "lose"
        THEN [bet |-> IF js + 1 = 1 THEN start
                      ELSE RaiseBy(start, cfg.jackpot_raise_min, cfg.jackpot_raise_max, d),
              jackpot_streak |-> js + 1]
        ELSE [bet |-> start, jackpot_streak |-> 0]

\* bot.py WolfBetBot.strat_high_risk_pulse: the bet and the new high_risk_streak
strat_high_risk_pulse(lo, lba, hs, tb, d) ==
    LET start == IF lba > 0 THEN lba ELSE cfg.base_bet
    IN  IF lo = "lose"
        THEN [bet |-> RaiseBy(start, cfg.high_risk_raise_min, cfg.high_risk_raise_max, d),
              high_risk_streak |-> hs + 1]
        ELSE [bet |-> IF tb > 0 /\ tb % cfg.high_risk_interval = 0
                      THEN start * 2 ELSE start,
              high_risk_streak |-> 0]

\* Mutant of strat_randomized: the uniform mode draws from 0, not from the base bet.
strat_randomized_fromzero(lba, lla, d) ==
    LET start == IF lba > 0 THEN lba ELSE cfg.base_bet
    IN  IF cfg.randomized_mode = "multiplier"
        THEN RaiseBy(start, cfg.randomized_min_mult, cfg.randomized_max_mult, d)
        ELSE UniformAmount(0, Max(lla, start), d)

\* bot.py WolfBetBot.strat_randomized
strat_randomized(lba, lla, d) ==
    LET start == IF lba > 0 THEN lba ELSE cfg.base_bet
    IN  IF cfg.randomized_mode = "multiplier"
        THEN RaiseBy(start, cfg.randomized_min_mult, cfg.randomized_max_mult, d)
        ELSE UniformAmount(cfg.base_bet, Max(lla, start), d)

\* strat_high_risk_pulse in both files: total_bets % high_risk_interval is
\* evaluated when the last outcome is not "lose" (total_bets is at least 1
\* by then) and raises ZeroDivisionError for an interval of 0.
Raises(strategy, lo) ==
    strategy = "high_risk_pulse" /\ lo # "lose" /\ cfg.high_risk_interval = 0

\* bot.py main_loop, "next bet according to strategy": the dispatch on the
\* strategy name, after last_bet_amount (lba), last_outcome (lo),
\* last_loss_amount (lla) and total_bets (tb) were updated for the round.
NextBet(strategy, win, last_bet, lo, lba, lla, tb, d) ==
    LET keep == [fibo_seq |-> fibo_seq, jackpot_streak |-> jackpot_streak,
                 high_risk_streak |-> high_risk_streak]
    IN  CASE strategy = "martingale" ->
                keep @@ [bet |-> strat_martingale(win, last_bet)]
          [] strategy = "fibonacci" ->
                LET r == strat_fibonacci(win, fibo_seq)
                IN  [keep EXCEPT !.fibo_seq = r.fibo_seq] @@ [bet |-> r.bet]
          [] strategy = "flat" ->
                keep @@ [bet |-> strat_flat(win, last_bet)]
          [] strategy = "jackpot_hunter" ->
                LET r == strat_jackpot_hunter(lo, lba, jackpot_streak, d)
                IN  [keep EXCEPT !.jackpot_streak = r.jackpot_streak] @@ [bet |-> r.bet]
          [] strategy = "high_risk_pulse" ->
                LET r == strat_high_risk_pulse(lo, lba, high_risk_streak, tb, d)
                IN  [keep EXCEPT !.high_risk_streak = r.high_risk_streak] @@ [bet |-> r.bet]
          [] strategy = "randomized" ->
                keep @@ [bet |-> strat_randomized(lba, lla, d)]
          [] OTHER ->
                keep @@ [bet |-> cfg.base_bet]

\* bot1.py WolfBetBot.strat_dalembert: step = base_bet * 0.25
strat_dalembert(win, last_bet) ==
    IF win THEN Max(cfg.base_bet, RoundDiv(4 * last_bet - cfg.base_bet, 4))
    ELSE RoundDiv(4 * last_bet + cfg.base_bet, 4)

\* bot1.py WolfBetBot.strat_jackpot_hunter: the bet and the override_chance it sets
strat_jackpot_hunter1(lo, cb, d) ==
    [bet |-> IF lo = "lose"
             THEN RaiseBy(cb, cfg.jackpot_raise_min, cfg.jackpot_raise_max, d)
             ELSE cfg.base_bet,
     override_chance |-> <<cfg.jackpot_chance>>]

\* Mutant of strat_high_risk_pulse1: a win keeps the current bet.
strat_high_risk_pulse1_carry(lo, cb, tb, d) ==
    [bet |-> IF lo = "lose"
             THEN RaiseBy(cb, cfg.high_risk_raise_min, cfg.high_risk_raise_max, d)
             ELSE IF tb > 0 /\ tb % cfg.high_risk_interval = 0
                  THEN cb * 5 ELSE cb,
     override_chance |-> <<cfg.high_risk_chance>>]

\* bot1.py WolfBetBot.strat_high_risk_pulse: the bet and the override_chance it sets
strat_high_risk_pulse1(lo, cb, tb, d) ==
    [bet |-> IF lo = "lose"
             THEN RaiseBy(cb, cfg.high_risk_raise_min, cfg.high_risk_raise_max, d)
             ELSE IF tb > 0 /\ tb % cfg.high_risk_interval = 0
                  THEN cfg.base_bet * 5 ELSE cfg.base_bet,
     override_chance |-> <<cfg.high_risk_chance>>]

\* Mutant of strat_randomized1: the upper bound doubled.
strat_randomized1_wide(lla, d) ==
    UniformAmount(cfg.base_bet, 2 * Max(lla, cfg.base_bet), d)

\* bot1.py WolfBetBot.strat_randomized
strat_randomized1(lla, d) ==
    UniformAmount(cfg.base_bet, Max(lla, cfg.base_bet), d)

\* bot1.py main_loop, "determine next bet according to strategy": the dispatch,
\* after last_outcome (lo), last_loss_amount (lla) and total_bets (tb) were
\* updated for the round; last_bet is self.current_bet.
NextBet1(strategy, win, last_bet, lo, lla, tb, d) ==
    LET keep == [fibo_seq |-> fibo_seq, override_chance |-> <<>>]
    IN  CASE strategy = "martingale" ->
                keep @@ [bet |-> strat_martingale(win, last_bet)]
          [] strategy = "fibonacci" ->
                LET r == strat_fibonacci(win, fibo_seq)
                IN  [keep EXCEPT !.fibo_seq = r.fibo_seq] @@ [bet |-> r.bet]
          [] strategy = "dalembert" ->
                keep @@ [bet |-> strat_dalembert(win, last_bet)]
          [] strategy = "flat" ->
                keep @@ [bet |-> strat_flat(win, last_bet)]
          [] strategy = "jackpot_hunter" ->
                LET r == strat_jackpot_hunter1(lo, last_bet, d)
                IN  [keep EXCEPT !.override_chance = r.override_chance] @@ [bet |-> r.bet]
          [] strategy = "high_risk_pulse" ->
                LET r == strat_high_risk_pulse1(lo, last_bet, tb, d)
                IN  [keep EXCEPT !.override_chance = r.override_chance] @@ [bet |-> r.bet]
          [] strategy = "randomized" ->
                keep @@ [bet |-> strat_randomized1(lla, d)]
          [] OTHER ->
                keep @@ [bet |-> cfg.base_bet]

\* Mutant of CoverLoss: the strategy's bet is kept as it is.
CoverLoss_off(next_bet, lst) == next_bet

\* bot1.py main_loop, COVER LOSS: the next bet is at least the streak's
\* cumulative loss plus one base bet (lst is the updated loss_streak_total).
CoverLoss(next_bet, lst) ==
    LET cover_needed == (IF lst < 0 THEN 0 - lst ELSE lst) + cfg.base_bet
    IN  IF next_bet < cover_needed THEN cover_needed ELSE next_bet

\* --------------------------------------------------- Session Controller
\* Mutant of StopLossHit: the comparison made strict.
StopLossHit_strict == session_profit < cfg.stop_loss

\* main_loop, stop conditions (the same in both files)
StopLossHit == session_profit <= cfg.stop_loss
TakeProfitHit == session_profit >= cfg.take_profit

\* Mutant of Capped: the cap left out.
Capped_off == current_bet

\* bot.py main_loop, "cap current bet if max_bet > 0"
Capped ==
    IF cfg.max_bet # 0 /\ cfg.max_bet > 0 /\ current_bet > cfg.max_bet
    THEN cfg.max_bet ELSE current_bet

\* bot1.py main_loop has no cap: the bet is sent as it is
Uncapped == current_bet

\* The amount of the submission in flight (bot.py caps, bot1.py does not).
Sent == IF cfg.variant = "bot" THEN Capped ELSE Uncapped

RoundsBound == IF session_count <= 1 THEN MaxRounds ELSE MaxRoundsLater

CanRun ==
    /\ session_count < MaxSessions
    /\ \/ pc = "constructed"
       \/ pc \in {"stop_loss", "take_profit", "no_balance"} /\ cfg.auto_start

\* Mutant of NextIndex: the index does not advance.
NextIndex_stay == strategy_index

\* The strategy switch of both files: the next index and strategy of the cycle.
NextIndex == (strategy_index + 1) % Len(cfg.strategy_cycle)
NextStrategy == cfg.strategy_cycle[NextIndex + 1]

\* Mutant of SwitchOnWin: the on_win switch never taken.
SwitchOnWin_never == FALSE

\* bot.py main_loop, "optionally auto-switch on win"
SwitchOnWin ==
    cfg.auto_strategy_change /\ cfg.strategy_switch_mode = "on_win"
        /\ cfg.strategy_cycle # <<>>

\* Mutant of SwitchOnLossStreak: the trigger compared strictly.
SwitchOnLossStreak_late(lsc) ==
    cfg.auto_strategy_change /\ cfg.strategy_switch_mode = "on_loss_streak"
        /\ cfg.strategy_cycle # <<>> /\ lsc > cfg.loss_streak_trigger

\* bot.py main_loop, "optionally auto-switch on loss_streak"; lsc is the
\* updated loss_streak_count
SwitchOnLossStreak(lsc) ==
    cfg.auto_strategy_change /\ cfg.strategy_switch_mode = "on_loss_streak"
        /\ cfg.strategy_cycle # <<>> /\ lsc >= cfg.loss_streak_trigger

\* Mutant of LedgerAfterWin: the streak counter is not reset.
LedgerAfterWin_keep(profit) ==
    [session_profit |-> session_profit + profit,
     win_count |-> win_count + 1,
     loss_streak_total |-> 0,
     loss_streak_count |-> loss_streak_count,
     last_loss_amount |-> IF cfg.variant = "bot" THEN 0 ELSE cfg.base_bet]

\* main_loop, win handling: the ledger after a win of `profit`.
\* bot.py resets last_loss_amount to 0.0, bot1.py to base_bet.
LedgerAfterWin(profit) ==
    [session_profit |-> session_profit + profit,
     win_count |-> win_count + 1,
     loss_streak_total |-> 0,
     loss_streak_count |-> 0,
     last_loss_amount |-> IF cfg.variant = "bot" THEN 0 ELSE cfg.base_bet]

\* Mutant of LedgerAfterLoss: the profit charged with the amount sent, not
\* with the amount the collaborator reports.
LedgerAfterLoss_sent(loss_amount) ==
    [session_profit |-> session_profit - Sent,
     lose_count |-> lose_count + 1,
     loss_streak_count |-> loss_streak_count + 1,
     loss_streak_total |-> loss_streak_total + loss_amount,
     last_loss_amount |-> loss_amount]

\* Mutant of LedgerAfterLoss: the loss is not taken from the session profit.
LedgerAfterLoss_free(loss_amount) ==
    [session_profit |-> session_profit,
     lose_count |-> lose_count + 1,
     loss_streak_count |-> loss_streak_count + 1,
     loss_streak_total |-> loss_streak_total + loss_amount,
     last_loss_amount |-> loss_amount]

\* main_loop, loss handling (the same in both files): the ledger after a
\* loss charged at loss_amount.
LedgerAfterLoss(loss_amount) ==
    [session_profit |-> session_profit - loss_amount,
     lose_count |-> lose_count + 1,
     loss_streak_count |-> loss_streak_count + 1,
     loss_streak_total |-> loss_streak_total + loss_amount,
     last_loss_amount |-> loss_amount]

\* Mutant of Row: the profit column without its sign.
Row_unsigned(next_bet, wl, profit) ==
    [next_bet |-> next_bet, wl |-> wl,
     profit |-> IF profit < 0 THEN 0 - profit ELSE profit]

\* A row of bet_history: the next bet, the W/L column and the profit column.
Row(next_bet, wl, profit) == [next_bet |-> next_bet, wl |-> wl, profit |-> profit]

\* The payload handed to place_dice_bet, and whether a usable result came back.
Payload(amount, rt, ok) ==
    <<[amount |-> amount, rule |-> rt.rule, bet_value |-> rt.bet_value, ok |-> ok]>>

\* run() and main_loop up to the round loop when the balance query fails
\* (the same in both files): the session never begins.
NoBalance ==
    /\ CanRun
    /\ session_count' = session_count + 1
    /\ pc' = "no_balance"
    /\ UNCHANGED <<cfg, rounding, current_bet, override_chance, placed, ledger, memory, selector>>

\* bot.py run() and main_loop, "reset runtime state"
Run ==
    /\ cfg.variant = "bot"
    /\ CanRun
    /\ session_count' = session_count + 1
    /\ pc' = "running"
    /\ session_profit' = 0
    /\ current_bet' = get_starting_bet_for_strategy(current_strategy, last_bet_amount)
    /\ bet_history' = <<>>
    /\ loss_streak_total' = 0
    /\ loss_streak_count' = 0
    /\ last_loss_amount' = 0
    /\ last_outcome' = "None"
    /\ override_chance' = <<>>
    /\ total_bets' = 0
    /\ win_count' = 0
    /\ lose_count' = 0
    /\ last_bet_amount' = 0
    /\ placed' = <<>>
    /\ UNCHANGED <<cfg, rounding, fibo_seq, jackpot_streak, high_risk_streak, selector>>

\* bot1.py run() and main_loop, "reset runtime state"
Run1 ==
    /\ cfg.variant = "bot1"
    /\ CanRun
    /\ session_count' = session_count + 1
    /\ pc' = "running"
    /\ session_profit' = 0
    /\ current_bet' = cfg.base_bet
    /\ bet_history' = <<>>
    /\ loss_streak_total' = 0
    /\ loss_streak_count' = 0
    /\ last_loss_amount' = cfg.base_bet
    /\ last_outcome' = "None"
    /\ override_chance' = <<>>
    /\ total_bets' = 0
    /\ win_count' = 0
    /\ lose_count' = 0
    /\ current_strategy' = cfg.strategy
    /\ strategy_index' = IF cfg.strategy \in Range(cfg.strategy_cycle)
                         THEN IndexOf(cfg.strategy_cycle, cfg.strategy) ELSE 0
    /\ placed' = <<>>
    /\ UNCHANGED <<cfg, rounding, memory>>

\* main_loop, stop-loss check at the top of the round loop (both files)
StopLoss ==
    /\ pc = "running"
    /\ StopLossHit
    /\ pc' = "stop_loss"
    /\ UNCHANGED <<cfg, rounding, current_bet, override_chance, placed, session_count,
                   ledger, memory, selector>>

\* main_loop, take-profit check at the top of the round loop (both files)
TakeProfit ==
    /\ pc = "running"
    /\ ~StopLossHit
    /\ TakeProfitHit
    /\ pc' = "take_profit"
    /\ UNCHANGED <<cfg, rounding, current_bet, override_chance, placed, session_count,
                   ledger, memory, selector>>

\* Mutant of SubmitFail: the round counted before the result is inspected.
SubmitFail_counted ==
    /\ cfg.variant = "bot"
    /\ pc = "running"
    /\ ~StopLossHit /\ ~TakeProfitHit
    /\ total_bets < RoundsBound
    /\ \E coin \in Coins :
        LET rt == chance_to_rule_and_threshold(<<>>, coin)
        IN  /\ current_bet' = Capped
            /\ override_chance' = <<>>
            /\ placed' = Payload(Capped, rt, FALSE)
    /\ total_bets' = total_bets + 1
    /\ UNCHANGED <<cfg, rounding, pc, session_count, session_profit, win_count,
                   lose_count, loss_streak_total, loss_streak_count,
                   last_loss_amount, last_outcome, bet_history, memory, selector>>

\* bot.py main_loop: one pass of the loop whose submission brings no usable
\* result (no response, or a response without a "bet" payload).
SubmitFail ==
    /\ cfg.variant = "bot"
    /\ pc = "running"
    /\ ~StopLossHit /\ ~TakeProfitHit
    /\ \E coin \in Coins :
        LET rt == chance_to_rule_and_threshold(<<>>, coin)
        IN  /\ current_bet' = Capped
            /\ override_chance' = <<>>
            /\ placed' = Payload(Capped, rt, FALSE)
    /\ UNCHANGED <<cfg, rounding, pc, session_count, ledger, memory, selector>>

\* bot.py main_loop: one pass of the loop whose round is resolved as a win.
Win ==
    /\ cfg.variant = "bot"
    /\ pc = "running"
    /\ ~StopLossHit /\ ~TakeProfitHit
    /\ total_bets < RoundsBound
    /\ ~Raises(current_strategy, "win")
    /\ \E coin \in Coins, profit \in Payouts, amount \in Charged(Capped),
          d \in DrawsFor(current_strategy) :
        LET sent == Capped
            rt == chance_to_rule_and_threshold(<<>>, coin)
            tb == total_bets + 1
            led == LedgerAfterWin(profit)
            nb == NextBet(current_strategy, TRUE, sent, "win", amount,
                          led.last_loss_amount, tb, d)
            bet == IF SwitchOnWin
                   THEN get_starting_bet_for_strategy(NextStrategy, amount)
                   ELSE nb.bet
        IN  /\ placed' = Payload(sent, rt, TRUE)
            /\ override_chance' = <<>>
            /\ total_bets' = tb
            /\ last_bet_amount' = amount
            /\ last_outcome' = "win"
            /\ session_profit' = led.session_profit
            /\ win_count' = led.win_count
            /\ loss_streak_total' = led.loss_streak_total
            /\ loss_streak_count' = led.loss_streak_count
            /\ last_loss_amount' = led.last_loss_amount
            /\ fibo_seq' = nb.fibo_seq
            /\ jackpot_streak' = nb.jackpot_streak
            /\ high_risk_streak' = nb.high_risk_streak
            /\ strategy_index' = IF SwitchOnWin THEN NextIndex ELSE strategy_index
            /\ current_strategy' = IF SwitchOnWin THEN NextStrategy ELSE current_strategy
            /\ current_bet' = bet
            /\ bet_history' = Append(bet_history, Row(bet, "WIN", profit))
    /\ UNCHANGED <<cfg, rounding, pc, session_count, lose_count>>

\* bot.py main_loop: one pass of the loop whose round is resolved as a loss
\* (any state other than "win").
Lose ==
    /\ cfg.variant = "bot"
    /\ pc = "running"
    /\ ~StopLossHit /\ ~TakeProfitHit
    /\ total_bets < RoundsBound
    /\ \E coin \in Coins, state \in ServerStates \ {"win"}, amount \in Charged(Capped),
          d \in DrawsFor(current_strategy) :
        LET sent == Capped
            rt == chance_to_rule_and_threshold(<<>>, coin)
            tb == total_bets + 1
            led == LedgerAfterLoss(amount)
            lsc == led.loss_streak_count
            lst == led.loss_streak_total
            nb == NextBet(current_strategy, FALSE, sent, state, amount,
                          led.last_loss_amount, tb, d)
            switch == SwitchOnLossStreak(lsc)
            bet == IF switch
                   THEN get_starting_bet_for_strategy(NextStrategy, amount)
                   ELSE nb.bet
        IN  /\ ~Raises(current_strategy, state)
            /\ placed' = Payload(sent, rt, TRUE)
            /\ override_chance' = <<>>
            /\ total_bets' = tb
            /\ last_bet_amount' = amount
            /\ last_outcome' = state
            /\ session_profit' = led.session_profit
            /\ lose_count' = led.lose_count
            /\ loss_streak_total' = lst
            /\ last_loss_amount' = led.last_loss_amount
            /\ fibo_seq' = nb.fibo_seq
            /\ jackpot_streak' = nb.jackpot_streak
            /\ high_risk_streak' = nb.high_risk_streak
            /\ strategy_index' = IF switch THEN NextIndex ELSE strategy_index
            /\ current_strategy' = IF switch THEN NextStrategy ELSE current_strategy
            /\ loss_streak_count' = IF switch THEN 0 ELSE lsc
            /\ current_bet' = bet
            /\ bet_history' = Append(bet_history, Row(bet, "LOSE", 0 - lst))
    /\ UNCHANGED <<cfg, rounding, pc, session_count, win_count>>

\* bot1.py main_loop: one pass of the loop whose submission brings no usable
\* result (no data, or data without a "bet" payload).
SubmitFail1 ==
    /\ cfg.variant = "bot1"
    /\ pc = "running"
    /\ ~StopLossHit /\ ~TakeProfitHit
    /\ \E coin \in Coins :
        LET rt == chance_to_rule_and_threshold(<<>>, coin)
        IN  /\ override_chance' = <<>>
            /\ placed' = Payload(Uncapped, rt, FALSE)
    /\ UNCHANGED <<cfg, rounding, pc, current_bet, session_count, ledger, memory, selector>>

\* bot1.py main_loop: one pass of the loop whose round is resolved as a win.
\* The override_chance a strategy sets is cleared at the end of the pass.
Win1 ==
    /\ cfg.variant = "bot1"
    /\ pc = "running"
    /\ ~StopLossHit /\ ~TakeProfitHit
    /\ total_bets < RoundsBound
    /\ ~Raises(current_strategy, "win")
    /\ \E coin \in Coins, profit \in Payouts, d \in DrawsFor(current_strategy) :
        LET sent == Uncapped
            rt == chance_to_rule_and_threshold(<<>>, coin)
            tb == total_bets + 1
            led == LedgerAfterWin(profit)
            nb == NextBet1(current_strategy, TRUE, sent, "win", led.last_loss_amount, tb, d)
        IN  /\ placed' = Payload(sent, rt, TRUE)
            /\ override_chance' = <<>>
            /\ total_bets' = tb
            /\ last_outcome' = "win"
            /\ session_profit' = led.session_profit
            /\ win_count' = led.win_count
            /\ loss_streak_total' = led.loss_streak_total
            /\ loss_streak_count' = led.loss_streak_count
            /\ last_loss_amount' = led.last_loss_amount
            /\ fibo_seq' = nb.fibo_seq
            /\ strategy_index' = IF SwitchOnWin THEN NextIndex ELSE strategy_index
            /\ current_strategy' = IF SwitchOnWin THEN NextStrategy ELSE current_strategy
            /\ current_bet' = nb.bet
            /\ bet_history' = Append(bet_history, Row(nb.bet, "WIN", profit))
    /\ UNCHANGED <<cfg, rounding, pc, session_count, lose_count, jackpot_streak,
                   high_risk_streak, last_bet_amount>>

\* bot1.py main_loop: one pass of the loop whose round is resolved as a loss
\* (any state other than "win"), with cover-loss.
Lose1 ==
    /\ cfg.variant = "bot1"
    /\ pc = "running"
    /\ ~StopLossHit /\ ~TakeProfitHit
    /\ total_bets < RoundsBound
    /\ \E coin \in Coins, state \in ServerStates \ {"win"}, amount \in Charged(Uncapped),
          d \in DrawsFor(current_strategy) :
        LET sent == Uncapped
            rt == chance_to_rule_and_threshold(<<>>, coin)
            tb == total_bets + 1
            led == LedgerAfterLoss(amount)
            lsc == led.loss_streak_count
            lst == led.loss_streak_total
            nb == NextBet1(current_strategy, FALSE, sent, state, led.last_loss_amount, tb, d)
            bet == CoverLoss(nb.bet, lst)
            switch == SwitchOnLossStreak(lsc)
        IN  /\ ~Raises(current_strategy, state)
            /\ placed' = Payload(sent, rt, TRUE)
            /\ override_chance' = <<>>
            /\ total_bets' = tb
            /\ last_outcome' = state
            /\ session_profit' = led.session_profit
            /\ lose_count' = led.lose_count
            /\ loss_streak_total' = lst
            /\ last_loss_amount' = led.last_loss_amount
            /\ fibo_seq' = nb.fibo_seq
            /\ strategy_index' = IF switch THEN NextIndex ELSE strategy_index
            /\ current_strategy' = IF switch THEN NextStrategy ELSE current_strategy
            /\ loss_streak_count' = IF switch THEN 0 ELSE lsc
            /\ current_bet' = bet
            /\ bet_history' = Append(bet_history, Row(bet, "LOSE", 0 - lst))
    /\ UNCHANGED <<cfg, rounding, pc, session_count, win_count, jackpot_streak,
                   high_risk_streak, last_bet_amount>>

\* bot.py main_loop: one pass of the loop whose round is resolved and whose
\* call of strat_high_risk_pulse raises: the ledger is updated, the next bet
\* is not computed, no history row is written, and the exception, caught
\* nowhere, ends the program.
PulseError ==
    /\ cfg.variant = "bot"
    /\ pc = "running"
    /\ ~StopLossHit /\ ~TakeProfitHit
    /\ total_bets < RoundsBound
    /\ \E coin \in Coins, state \in ServerStates, profit \in Payouts,
          amount \in Charged(Capped) :
        LET rt == chance_to_rule_and_threshold(<<>>, coin)
            led == IF state = "win"
                   THEN LedgerAfterWin(profit) @@ [lose_count |-> lose_count]
                   ELSE LedgerAfterLoss(amount) @@ [win_count |-> win_count]
        IN  /\ Raises(current_strategy, state)
            /\ state # "win" => profit = 50
            /\ placed' = Payload(Capped, rt, TRUE)
            /\ current_bet' = Capped
            /\ override_chance' = <<>>
            /\ total_bets' = total_bets + 1
            /\ last_bet_amount' = amount
            /\ last_outcome' = state
            /\ session_profit' = led.session_profit
            /\ win_count' = led.win_count
            /\ lose_count' = led.lose_count
            /\ loss_streak_total' = led.loss_streak_total
            /\ loss_streak_count' = led.loss_streak_count
            /\ last_loss_amount' = led.last_loss_amount
    /\ pc' = "error"
    /\ UNCHANGED <<cfg, rounding, session_count, bet_history, fibo_seq, jackpot_streak,
                   high_risk_streak, selector>>

\* bot1.py main_loop: the same pass; strat_high_risk_pulse has set
\* override_chance before it raises.
PulseError1 ==
    /\ cfg.variant = "bot1"
    /\ pc = "running"
    /\ ~StopLossHit /\ ~TakeProfitHit
    /\ total_bets < RoundsBound
    /\ \E coin \in Coins, state \in ServerStates, profit \in Payouts,
          amount \in Charged(Uncapped) :
        LET rt == chance_to_rule_and_threshold(<<>>, coin)
            led == IF state = "win"
                   THEN LedgerAfterWin(profit) @@ [lose_count |-> lose_count]
                   ELSE LedgerAfterLoss(amount) @@ [win_count |-> win_count]
        IN  /\ Raises(current_strategy, state)
            /\ state # "win" => profit = 50
            /\ placed' = Payload(Uncapped, rt, TRUE)
            /\ override_chance' = <<cfg.high_risk_chance>>
            /\ total_bets' = total_bets + 1
            /\ last_outcome' = state
            /\ session_profit' = led.session_profit
            /\ win_count' = led.win_count
            /\ lose_count' = led.lose_count
            /\ loss_streak_total' = led.loss_streak_total
            /\ loss_streak_count' = led.loss_streak_count
            /\ last_loss_amount' = led.last_loss_amount
    /\ pc' = "error"
    /\ UNCHANGED <<cfg, rounding, current_bet, session_count, bet_history, memory, selector>>

Next ==
    \/ NoBalance
    \/ Run
    \/ Run1
    \/ StopLoss
    \/ TakeProfit
    \/ SubmitFail
    \/ Win
    \/ Lose
    \/ SubmitFail1
    \/ Win1
    \/ Lose1
    \/ PulseError
    \/ PulseError1

Spec == Init /\ [][Next]_vars

\* ------------------------------------------- the Threshold Mapper alone
\* The chances and rule modes a configuration may carry, in and out of the
\* range (0, 100), and the chance_override arguments of a call.
MapperChances == {0 - 50, 0, 1, 2, 100, 4950, 5000, 9998, 9999, 10000, 12000}
MapperRuleModes == {"auto", "over", "under", "either"}
MapperOverrides == {<<>>, <<0 - 100>>, <<0>>, <<1>>, <<100>>, <<500>>, <<9999>>, <<10001>>}
MapperConfigs ==
    {[MakeCfg(v, "flat", Switching(FALSE, "on_win", <<"flat">>, 2), 0, 200,
              "multiplier", rm) EXCEPT !.chance = c] :
        v \in Variants, rm \in MapperRuleModes, c \in MapperChances}

\* The constructed engine under each of these configurations.
InitMapper ==
    /\ cfg \in MapperConfigs
    /\ rounding = 0
    /\ pc = "constructed"
    /\ session_profit = 0
    /\ current_bet = cfg.base_bet
    /\ bet_history = <<>>
    /\ loss_streak_total = 0
    /\ loss_streak_count = 0
    /\ session_count = 0
    /\ current_strategy = cfg.strategy
    /\ strategy_index = 0
    /\ last_loss_amount = IF cfg.variant = "bot" THEN 0 ELSE cfg.base_bet
    /\ last_outcome = "None"
    /\ override_chance = <<>>
    /\ fibo_seq = <<cfg.base_bet>>
    /\ total_bets = 0
    /\ win_count = 0
    /\ lose_count = 0
    /\ jackpot_streak = 0
    /\ high_risk_streak = 0
    /\ last_bet_amount = 0
    /\ placed = <<>>

\* One call of chance_to_rule_and_threshold: override_chance holds the
\* argument of the call, placed its result; the function assigns no field.
MapChance ==
    /\ \E ov \in MapperOverrides, coin \in {0, 1} :
        /\ override_chance' = ov
        /\ placed' = Payload(current_bet, chance_to_rule_and_threshold(ov, coin), TRUE)
    /\ UNCHANGED <<cfg, rounding, pc, current_bet, session_count, ledger, memory, selector>>

NextMapper == MapChance

SpecMapper == InitMapper /\ [][NextMapper]_vars

\* ------------------------------------------- one session run, to its end
\* The configurations with auto_start off: the restart loop ends after the
\* first run() (a ceiling of 50 is left out: at 50 a round, the stop-loss is
\* further away than the rounds explored).
LiveConfigs ==
    {[c EXCEPT !.auto_start = FALSE] : c \in {k \in Configs : k.max_bet # 50}}

InitLive ==
    /\ cfg \in LiveConfigs
    /\ rounding \in {0, 1}
    /\ pc = "constructed"
    /\ session_profit = 0
    /\ current_bet = cfg.base_bet
    /\ bet_history = <<>>
    /\ loss_streak_total = 0
    /\ loss_streak_count = 0
    /\ session_count = 0
    /\ current_strategy = cfg.strategy
    /\ strategy_index = IF cfg.strategy \in Range(cfg.strategy_cycle)
                        THEN IndexOf(cfg.strategy_cycle, cfg.strategy) ELSE 0
    /\ last_loss_amount = IF cfg.variant = "bot" THEN 0 ELSE cfg.base_bet
    /\ last_outcome = "None"
    /\ override_chance = <<>>
    /\ fibo_seq = <<cfg.base_bet>>
    /\ total_bets = 0
    /\ win_count = 0
    /\ lose_count = 0
    /\ jackpot_streak = 0
    /\ high_risk_streak = 0
    /\ last_bet_amount = 0
    /\ placed = <<>>

\* The round loop is a sequential program: while a step of it is possible it
\* takes one.
SpecLive == InitLive /\ [][Next]_vars /\ WF_vars(Next)

\* ================================================================ claims
Halted == pc \in {"stop_loss", "take_profit"}
BoundReached ==
    session_profit <= cfg.stop_loss \/ session_profit >= cfg.take_profit
Last(seq) == seq[Len(seq)]

\* C1 -- Halt invariant: once the session profit is <= the stop-loss bound or
\* >= the take-profit bound at a round boundary, the next pass of the loop
\* halts the session without submitting a wager, and a halted session submits
\* nothing further; with the flat strategy, no switching, exact charging and
\* only losses, a wager is submitted only while the cumulative loss of the
\* earlier wagers is below the stop-loss bound (base 100, stop-loss -300:
\* three wagers, never a fourth).
C1_HaltInvariant ==
    /\ [][(pc = "running" /\ BoundReached) =>
            (pc' \in {"stop_loss", "take_profit"}
             /\ placed' = placed /\ total_bets' = total_bets)]_vars
    /\ [][(Halted /\ session_count' = session_count) =>
            (placed' = placed /\ total_bets' = total_bets)]_vars
    /\ []((cfg.strategy = "flat" /\ ~cfg.auto_strategy_change /\ cfg.max_bet # 50
           /\ rounding = 0 /\ win_count = 0 /\ total_bets > 0)
          => (total_bets - 1) * cfg.base_bet < 0 - cfg.stop_loss)

\* C1 witness: flat in bot.py, three exact losses, halted on the stop-loss.
C1_Witness ==
    /\ pc = "stop_loss" /\ cfg.variant = "bot" /\ cfg.strategy = "flat"
    /\ ~cfg.auto_strategy_change
    /\ total_bets = 3 /\ lose_count = 3 /\ session_profit = cfg.stop_loss

\* C2 -- Ceiling invariant: with a ceiling configured (max_bet > 0), the
\* amount of every call of place_dice_bet is <= max_bet.
C2_CeilingInvariant ==
    (cfg.max_bet > 0 /\ placed # <<>>) => placed[1].amount <= cfg.max_bet

\* C2 witness: the bet computed by the round before exceeded the ceiling and
\* the round after it was submitted and resolved at the ceiling.
C2_Witness ==
    /\ cfg.max_bet > 0 /\ placed # <<>> /\ placed[1].ok
    /\ Len(bet_history) >= 2
    /\ bet_history[Len(bet_history) - 1].next_bet > cfg.max_bet
    /\ placed[1].amount = cfg.max_bet

\* The amount the collaborator charged for the submission of this step.
ChargedNow ==
    IF placed'[1].amount > rounding THEN placed'[1].amount - rounding
    ELSE placed'[1].amount

\* C3 -- Session profit changes only when a round is resolved: by exactly
\* +payout on a win and exactly -amount_charged on a loss; every other step
\* of a session (failed submission, clamping, halting) leaves it unchanged,
\* and the start of a run sets it to 0.
C3_ProfitDelta ==
    [][IF total_bets' = total_bets + 1
       THEN IF last_outcome' = "win"
            THEN IF pc' = "error"
                 THEN session_profit' - session_profit \in Payouts
                 ELSE /\ Last(bet_history').profit \in Payouts
                      /\ session_profit' = session_profit + Last(bet_history').profit
            ELSE /\ session_profit' = session_profit - ChargedNow
                 /\ last_loss_amount' = ChargedNow
       ELSE \/ session_profit' = session_profit
            \/ pc # "running" /\ pc' = "running" /\ session_profit' = 0]_vars

\* C3 witness: one win paid 150 and one loss charged one unit below the 100 sent.
C3_Witness ==
    /\ rounding = 1 /\ win_count = 1 /\ lose_count = 1
    /\ cfg.strategy = "flat" /\ session_profit = 150 - 99

\* C4 -- A failed submission counts no round and leaves the ledger, the
\* strategy memory, the active strategy and the history as they were; the
\* controller stays in the round loop.
C4_FailureFrame ==
    [][(pc = "running" /\ placed' # <<>> /\ ~placed'[1].ok /\ ~Halted')
        => /\ pc' = "running"
           /\ UNCHANGED <<total_bets, win_count, lose_count, session_profit,
                          loss_streak_count, loss_streak_total, last_outcome,
                          last_loss_amount, current_strategy, strategy_index,
                          fibo_seq, jackpot_streak, high_risk_streak,
                          last_bet_amount, bet_history>>]_vars

\* C4 witness: a submission failed in the middle of a loss streak.
C4_Witness ==
    /\ pc = "running" /\ placed # <<>> /\ ~placed[1].ok
    /\ loss_streak_count >= 1 /\ Len(fibo_seq) >= 2 /\ total_bets >= 2

\* A pass of the round loop that resolved a round.
Resolved == pc = "running" /\ total_bets' = total_bets + 1
\* A pass of the round loop: every pass submits one wager.
Pass == pc = "running" /\ pc' = "running" /\ placed' # <<>>
\* The loss-streak switch is triggered by the loss this step resolves.
LossSwitchTriggered ==
    /\ cfg.auto_strategy_change /\ cfg.strategy_switch_mode = "on_loss_streak"
    /\ cfg.strategy_cycle # <<>>
    /\ loss_streak_count + 1 >= cfg.loss_streak_trigger
InitialIndex ==
    IF \E i \in 1 .. Len(cfg.strategy_cycle) : cfg.strategy_cycle[i] = cfg.strategy
    THEN (CHOOSE i \in 1 .. Len(cfg.strategy_cycle) :
            /\ cfg.strategy_cycle[i] = cfg.strategy
            /\ \A j \in 1 .. (i - 1) : cfg.strategy_cycle[j] # cfg.strategy) - 1
    ELSE 0

\* C5 -- No mutable state crosses a session boundary: at the start of every
\* session run the ledger and all strategy state (first wager, Fibonacci
\* sequence, jackpot / high-risk streak counters, last placed amount, active
\* strategy and cycle index) equal their initial values.
C5_FreshSession ==
    (pc = "running" /\ total_bets = 0 /\ placed = <<>>) =>
        /\ session_profit = 0 /\ win_count = 0 /\ lose_count = 0
        /\ loss_streak_total = 0 /\ loss_streak_count = 0
        /\ last_outcome = "None" /\ bet_history = <<>>
        /\ current_bet = cfg.base_bet
        /\ fibo_seq = <<cfg.base_bet>>
        /\ jackpot_streak = 0 /\ high_risk_streak = 0
        /\ last_bet_amount = 0
        /\ current_strategy = cfg.strategy
        /\ strategy_index = InitialIndex

\* C6 (as claimed) -- Martingale invariant: while martingale is the active
\* strategy, after every losing round the next wager is the last wager x
\* multiplier_factor and after every winning round it is the base wager.
C6_MartingaleAsClaimed ==
    [][(Resolved /\ current_strategy = "martingale" /\ current_strategy' = "martingale")
        => current_bet' = IF last_outcome' = "win" THEN cfg.base_bet
                          ELSE RoundDiv(placed'[1].amount * cfg.multiplier, 100)]_vars

\* C6 (amended) -- While martingale is the active strategy: after a winning
\* round the next wager is the base wager; after a losing round that triggers
\* no strategy switch it is the last wager submitted x multiplier_factor
\* (rounded to 8 digits), raised in bot1.py to the streak's cumulative loss
\* plus the base wager when that is more; a loss that triggers a switch in
\* bot.py reseeds the wager to the base wager, also when the cycle re-enters
\* martingale.
C6_Martingale ==
    [][(Resolved /\ current_strategy = "martingale" /\ current_strategy' = "martingale")
        => current_bet' =
            IF last_outcome' = "win" THEN cfg.base_bet
            ELSE IF cfg.variant = "bot"
                 THEN IF LossSwitchTriggered THEN cfg.base_bet
                      ELSE RoundDiv(placed'[1].amount * cfg.multiplier, 100)
                 ELSE Max(RoundDiv(placed'[1].amount * cfg.multiplier, 100),
                          loss_streak_total' + cfg.base_bet)]_vars

\* C6 witness: bot.py, base 100, multiplier 2, lose, lose, win: wagers 100,
\* 200, 400, then 100.
C6_Witness ==
    /\ cfg.variant = "bot" /\ cfg.strategy = "martingale" /\ cfg.multiplier = 200
    /\ ~cfg.auto_strategy_change /\ cfg.max_bet = 0
    /\ Len(bet_history) = 3
    /\ bet_history[1].wl = "LOSE" /\ bet_history[1].next_bet = 2 * cfg.base_bet
    /\ bet_history[2].wl = "LOSE" /\ bet_history[2].next_bet = 4 * cfg.base_bet
    /\ bet_history[3].wl = "WIN" /\ placed[1].amount = 4 * cfg.base_bet
    /\ current_bet = cfg.base_bet

RECURSIVE Fib(_)
Fib(n) == IF n <= 2 THEN 1 ELSE Fib(n - 1) + Fib(n - 2)

\* The Fibonacci memory holds the first terms of base x Fib, one per wager of
\* the streak so far: the streak started from a reset sequence.
FibInSync ==
    /\ Len(fibo_seq) = loss_streak_count + 1
    /\ \A i \in 1 .. Len(fibo_seq) : fibo_seq[i] = cfg.base_bet * Fib(i)

\* C7 (as claimed) -- Fibonacci invariant: while fibonacci is the active
\* strategy, the n-th wager of an unbroken loss streak that starts right after
\* a win (or at the first session start) is base_wager x Fib(n), and a win
\* resets the next wager to the base wager.
C7_FibonacciAsClaimed ==
    [][(Resolved /\ current_strategy = "fibonacci" /\ current_strategy' = "fibonacci")
        => IF last_outcome' = "win" THEN current_bet' = cfg.base_bet
           ELSE FibInSync => current_bet' = cfg.base_bet * Fib(loss_streak_count + 2)]_vars

\* C7 (amended) -- While fibonacci is the active strategy, a win resets the
\* next wager to the base wager and the sequence to its seed; on an unbroken
\* loss streak that starts from the seed and triggers no strategy switch the
\* n-th wager is base_wager x Fib(n) in bot.py, and in bot1.py the larger of
\* base_wager x Fib(n) and the streak's cumulative loss plus the base wager.
C7_Fibonacci ==
    [][(Resolved /\ current_strategy = "fibonacci" /\ current_strategy' = "fibonacci")
        => IF last_outcome' = "win"
           THEN current_bet' = cfg.base_bet /\ fibo_seq' = <<cfg.base_bet>>
           ELSE (FibInSync /\ ~LossSwitchTriggered) =>
                /\ FibInSync'
                /\ current_bet' =
                    IF cfg.variant = "bot"
                    THEN cfg.base_bet * Fib(loss_streak_count + 2)
                    ELSE Max(cfg.base_bet * Fib(loss_streak_count + 2),
                             loss_streak_total' + cfg.base_bet)]_vars

\* C7 witness: bot.py, a win, then two losses at 100 and 100: the third wager
\* of the streak is 200.
C7_Witness ==
    /\ cfg.variant = "bot" /\ current_strategy = "fibonacci"
    /\ Len(bet_history) = 3 /\ bet_history[1].wl = "WIN"
    /\ bet_history[1].next_bet = cfg.base_bet
    /\ bet_history[2].next_bet = cfg.base_bet
    /\ loss_streak_count = 2 /\ placed[1].amount = cfg.base_bet
    /\ current_bet = 2 * cfg.base_bet

\* C8 (as claimed) -- Flat invariant: while flat is the active strategy every
\* wager submitted equals the base wager, in bot.py and in bot1.py.
C8_FlatAsClaimed ==
    [][(Pass /\ current_strategy = "flat") => placed'[1].amount = cfg.base_bet]_vars

\* C8 (amended) -- While flat is the active strategy: in bot.py every wager
\* submitted is the base wager, or the ceiling when a ceiling below the base
\* wager is configured; in bot1.py the next wager after a win is the base
\* wager and after a loss it is the streak's cumulative loss plus the base
\* wager (cover-loss).
C8_Flat ==
    /\ [][(Pass /\ current_strategy = "flat" /\ cfg.variant = "bot")
            => placed'[1].amount =
                IF cfg.max_bet > 0 THEN Min(cfg.base_bet, cfg.max_bet)
                ELSE cfg.base_bet]_vars
    /\ [][(Resolved /\ current_strategy = "flat" /\ cfg.variant = "bot1")
            => current_bet' = IF last_outcome' = "win" THEN cfg.base_bet
                              ELSE loss_streak_total' + cfg.base_bet]_vars

\* C8 witness: bot.py, flat entered through a strategy switch, a round lost
\* at the base wager after earlier rounds.
C8_Witness ==
    /\ cfg.variant = "bot" /\ current_strategy = "flat" /\ cfg.strategy # "flat"
    /\ total_bets >= 2 /\ placed # <<>> /\ placed[1].ok
    /\ bet_history[Len(bet_history) - 1].next_bet = cfg.base_bet
    /\ placed[1].amount = cfg.base_bet
    /\ Last(bet_history).wl = "LOSE" /\ current_bet = cfg.base_bet

\* C9 -- Immediately after a winning round the consecutive-loss count and the
\* cumulative loss of the streak are both exactly 0.
C9_StreakResetOnWin ==
    last_outcome = "win" => (loss_streak_count = 0 /\ loss_streak_total = 0)

\* C9 witness: a win that ends a loss streak.
C9_Witness ==
    /\ last_outcome = "win" /\ Len(bet_history) >= 2
    /\ bet_history[Len(bet_history) - 1].wl = "LOSE"
    /\ Last(bet_history).wl = "WIN"
    /\ loss_streak_count = 0 /\ loss_streak_total = 0

\* C10 (as claimed) -- Immediately after any losing round, with any strategy
\* switch it triggers, the consecutive-loss count and the cumulative loss of
\* the streak are both strictly positive.
C10_PositiveAfterLossAsClaimed ==
    (bet_history # <<>> /\ Last(bet_history).wl = "LOSE")
        => (loss_streak_count > 0 /\ loss_streak_total > 0)

\* C10 (amended) -- After any losing round the cumulative loss of the streak
\* has grown by the amount charged and is strictly positive; the
\* consecutive-loss count is one more than before, unless the round triggered
\* a loss-streak strategy switch, which resets the count to 0.
C10_PositiveAfterLoss ==
    [][(Resolved /\ last_outcome' # "win")
        => /\ loss_streak_total' = loss_streak_total + ChargedNow
           /\ loss_streak_total' > 0
           /\ loss_streak_count' = IF LossSwitchTriggered THEN 0
                                   ELSE loss_streak_count + 1]_vars

\* C10 witness: a loss that triggered a loss-streak switch: the count is 0
\* with the streak's loss still standing.
C10_Witness ==
    /\ bet_history # <<>> /\ Last(bet_history).wl = "LOSE"
    /\ cfg.strategy_switch_mode = "on_loss_streak" /\ cfg.auto_strategy_change
    /\ cfg.loss_streak_trigger = 2
    /\ loss_streak_count = 0 /\ loss_streak_total >= 2 * (cfg.base_bet - 1)

\* The entry of the cycle that follows the active one, wrapping.
CycleNextIndex == (strategy_index + 1) % Len(cfg.strategy_cycle)
CycleNext == cfg.strategy_cycle[CycleNextIndex + 1]
LossStreakMode ==
    /\ cfg.auto_strategy_change /\ cfg.strategy_switch_mode = "on_loss_streak"
    /\ cfg.strategy_cycle # <<>> /\ cfg.loss_streak_trigger >= 1
\* This step resolves a loss that brings the consecutive-loss count to the trigger.
TriggerCrossing ==
    last_outcome' # "win" /\ loss_streak_count + 1 = cfg.loss_streak_trigger

\* C11 -- Strategy cycle invariant: in on_loss_streak mode (switching on, a
\* cycle configured, trigger >= 1) the selector advances to the next entry of
\* the cycle after a round if and only if that round is a loss that brings
\* the consecutive-loss count to the trigger; the switch resets the count to
\* 0, so the count never exceeds the trigger and the next switch needs a
\* further full trigger count of consecutive losses; passes that resolve no
\* round never switch.
C11_CycleInvariant ==
    /\ [][(Resolved /\ LossStreakMode) =>
            IF TriggerCrossing
            THEN /\ strategy_index' = CycleNextIndex
                 /\ current_strategy' = CycleNext
                 /\ loss_streak_count' = 0
            ELSE /\ UNCHANGED <<strategy_index, current_strategy>>
                 /\ loss_streak_count' =
                        IF last_outcome' = "win" THEN 0 ELSE loss_streak_count + 1]_vars
    /\ [][(pc = "running" /\ ~Resolved) =>
            UNCHANGED <<strategy_index, current_strategy>>]_vars
    /\ [](LossStreakMode => loss_streak_count < cfg.loss_streak_trigger)

\* C11 witness: trigger 2, three losses from the first entry of the cycle:
\* one switch after the second loss, none after the third.
C11_Witness ==
    /\ LossStreakMode /\ cfg.loss_streak_trigger = 2
    /\ Len(cfg.strategy_cycle) = 2 /\ cfg.strategy = cfg.strategy_cycle[1]
    /\ lose_count = 3 /\ win_count = 0
    /\ strategy_index = 1 /\ current_strategy = cfg.strategy_cycle[2]
    /\ loss_streak_count = 1

OnWinMode ==
    /\ cfg.auto_strategy_change /\ cfg.strategy_switch_mode = "on_win"
    /\ cfg.strategy_cycle # <<>>
\* The starting wager of strategy s after this step's round: in bot.py the
\* amount just charged for the three last-bet strategies, else the base
\* wager; bot1.py starts every strategy from the base wager.
StartingWager(s) ==
    IF cfg.variant = "bot" /\ s \in {"jackpot_hunter", "high_risk_pulse", "randomized"}
    THEN (IF last_bet_amount' > 0 THEN last_bet_amount' ELSE cfg.base_bet)
    ELSE cfg.base_bet

\* C12 (as claimed) -- In on_win mode every winning round advances the active
\* strategy to the next entry of the cycle, wrapping, and re-seeds the next
\* wager to the new strategy's starting wager; a losing round switches nothing.
C12_OnWinAsClaimed ==
    [][(Resolved /\ OnWinMode) =>
        IF last_outcome' = "win"
        THEN /\ strategy_index' = CycleNextIndex
             /\ current_strategy' = CycleNext
             /\ current_bet' = StartingWager(CycleNext)
        ELSE UNCHANGED <<strategy_index, current_strategy>>]_vars

\* C12 (amended) -- In on_win mode every winning round advances the active
\* strategy to the next entry of the cycle, wrapping, and a losing round
\* switches nothing. bot.py re-seeds the next wager to the new strategy's
\* starting wager (the amount just charged for jackpot_hunter,
\* high_risk_pulse and randomized, the base wager otherwise); bot1.py does
\* not re-seed: the next wager is the one the outgoing strategy computed for
\* the win.
C12_OnWin ==
    [][(Resolved /\ OnWinMode) =>
        IF last_outcome' = "win"
        THEN /\ strategy_index' = CycleNextIndex
             /\ current_strategy' = CycleNext
             /\ IF cfg.variant = "bot"
                THEN current_bet' = StartingWager(CycleNext)
                ELSE \E d \in Draws :
                        current_bet' = NextBet1(current_strategy, TRUE, current_bet, "win",
                                                cfg.base_bet, total_bets + 1, d).bet
        ELSE UNCHANGED <<strategy_index, current_strategy>>]_vars

\* C12 witness: bot.py, a cycle of three entered at its first entry, three
\* wins: the selector has wrapped to the first entry, a last-bet strategy,
\* and the wager is the amount charged for the third round.
C12_Witness ==
    /\ OnWinMode /\ cfg.variant = "bot" /\ Len(cfg.strategy_cycle) = 3
    /\ cfg.strategy = cfg.strategy_cycle[1]
    /\ win_count = 3 /\ lose_count = 0
    /\ strategy_index = 0 /\ current_strategy = "jackpot_hunter"
    /\ current_bet = last_bet_amount /\ rounding = 1 /\ current_bet = cfg.base_bet - 1

\* This step resolves a round that triggers a strategy switch.
SwitchStep ==
    /\ Resolved
    /\ \/ OnWinMode /\ last_outcome' = "win"
       \/ LossStreakMode /\ TriggerCrossing
\* The selector moves to the next entry of the cycle.
SelectorAdvanced ==
    strategy_index' = CycleNextIndex /\ current_strategy' = CycleNext
\* The ledger after this step's round, leaving the consecutive-loss count
\* aside: profit, counts, the cumulative loss of the streak and the last lost
\* amount are what the round alone makes them, and the history keeps its
\* entries and gains one.
LedgerAsRound ==
    /\ cfg' = cfg
    /\ total_bets' = total_bets + 1
    /\ Len(bet_history') = Len(bet_history) + 1
    /\ SubSeq(bet_history', 1, Len(bet_history)) = bet_history
    /\ IF last_outcome' = "win"
       THEN /\ session_profit' = session_profit + Last(bet_history').profit
            /\ win_count' = win_count + 1 /\ lose_count' = lose_count
            /\ loss_streak_total' = 0
       ELSE /\ session_profit' = session_profit - ChargedNow
            /\ win_count' = win_count /\ lose_count' = lose_count + 1
            /\ loss_streak_total' = loss_streak_total + ChargedNow
            /\ last_loss_amount' = ChargedNow

\* C13 (as claimed) -- A strategy switch, in either trigger mode, leaves
\* Config, session profit, the total/won/lost counts and the recorded history
\* entries as the round left them; it changes only the active strategy, its
\* cycle index and the next wager seed: the streak counters too are what the
\* round alone made them.
C13_SwitchFrameAsClaimed ==
    [][SwitchStep =>
        /\ SelectorAdvanced
        /\ LedgerAsRound
        /\ loss_streak_count' =
                IF last_outcome' = "win" THEN 0 ELSE loss_streak_count + 1]_vars

\* C13 (amended) -- A strategy switch, in either trigger mode, leaves Config,
\* session profit, the total/won/lost counts, the cumulative loss of the
\* streak and the recorded history entries as the round left them; it changes
\* the active strategy and its cycle index, in bot.py the next wager seed,
\* and, in on_loss_streak mode, it resets the consecutive-loss count to 0.
C13_SwitchFrame ==
    [][SwitchStep =>
        /\ SelectorAdvanced
        /\ LedgerAsRound
        /\ loss_streak_count' = 0]_vars

\* C13 witness: a loss-streak switch after two losses: the selector moved,
\* both losses stay in the ledger and the history, the count is 0.
C13_Witness ==
    /\ LossStreakMode /\ cfg.loss_streak_trigger = 2 /\ Len(cfg.strategy_cycle) >= 2
    /\ cfg.strategy = cfg.strategy_cycle[1] /\ strategy_index = 1
    /\ Len(bet_history) = 2 /\ lose_count = 2 /\ total_bets = 2
    /\ bet_history[1].wl = "LOSE" /\ bet_history[2].wl = "LOSE"
    /\ session_profit = 0 - loss_streak_total /\ session_profit < 0
    /\ loss_streak_count = 0

\* C14 -- Switching strategies mid-session carries no strategy memory over:
\* whenever a switch makes a strategy active, its StrategyState is at its
\* initial value -- the Fibonacci sequence is [base wager] when fibonacci is
\* entered and the first-loss streak counter is 0 when jackpot_hunter is
\* entered -- so the first loss under the re-entered strategy starts from the
\* base wager and not from an earlier, abandoned loss streak.
C14_FreshMemoryOnEntry ==
    [][SwitchStep =>
        /\ current_strategy' = "fibonacci" => fibo_seq' = <<cfg.base_bet>>
        /\ (cfg.variant = "bot" /\ current_strategy' = "jackpot_hunter")
                => jackpot_streak' = 0]_vars

\* The multiplier and the raise ranges are factors of at least 1.
FactorsAtLeastOne ==
    /\ cfg.multiplier >= 100
    /\ cfg.jackpot_raise_min >= 100 /\ cfg.jackpot_raise_max >= 100
    /\ cfg.high_risk_raise_min >= 100 /\ cfg.high_risk_raise_max >= 100
    /\ cfg.randomized_min_mult >= 100 /\ cfg.randomized_max_mult >= 100
\* A pass whose computed wager exceeds the configured ceiling submits the ceiling.
CeilingSubmitted ==
    [][(Pass /\ cfg.max_bet > 0 /\ current_bet > cfg.max_bet)
        => placed'[1].amount = cfg.max_bet]_vars

\* C15 (as claimed) -- Every wager submitted is strictly positive, for every
\* strategy and every outcome sequence, given a positive base wager; and
\* whenever the computed wager exceeds a configured ceiling the wager
\* submitted is exactly the ceiling.
C15_PositiveAsClaimed ==
    /\ []((cfg.base_bet > 0 /\ placed # <<>>) => placed[1].amount > 0)
    /\ CeilingSubmitted

\* C15 (amended) -- Given a positive base wager and a multiplier and raise
\* ranges that are factors of at least 1, every wager submitted is strictly
\* positive, for every strategy and every outcome sequence; and whenever the
\* computed wager exceeds a configured (positive) ceiling the wager submitted
\* is exactly the ceiling.
C15_Positive ==
    /\ []((cfg.base_bet > 0 /\ FactorsAtLeastOne /\ placed # <<>>)
            => placed[1].amount > 0)
    /\ CeilingSubmitted

\* C15 witness: martingale under a ceiling of 250: the third wager of a loss
\* streak, computed as 400, is submitted as 250.
C15_Witness ==
    /\ cfg.strategy = "martingale" /\ ~cfg.auto_strategy_change /\ cfg.max_bet = 250
    /\ lose_count = 3 /\ win_count = 0 /\ Len(bet_history) = 3
    /\ bet_history[2].next_bet > cfg.max_bet
    /\ placed[1].ok /\ placed[1].amount = cfg.max_bet /\ placed[1].amount > 0

\* The names the dispatch of the running file has no branch for.
Unknown(s) ==
    s \notin (IF cfg.variant = "bot" THEN KnownStrategies
              ELSE KnownStrategies \cup {"dalembert"})
\* A round resolved under an unknown strategy name that stays the active one.
UnknownRound ==
    Resolved /\ Unknown(current_strategy) /\ current_strategy' = current_strategy

\* C16 (as claimed) -- When the active strategy name is not one of the
\* enumerated variants, configured directly or reached through the cycle, the
\* next wager after every resolved round, win or loss, is the base wager.
C16_UnknownAsClaimed ==
    [][UnknownRound => current_bet' = cfg.base_bet]_vars

\* C16 (amended) -- When the active strategy name is not one of the
\* enumerated variants, the next wager after every resolved round is the base
\* wager in bot.py, win or loss; in bot1.py it is the base wager after a win
\* and the streak's cumulative loss plus the base wager after a loss
\* (cover-loss).
C16_Unknown ==
    [][UnknownRound =>
        current_bet' = IF cfg.variant = "bot" \/ last_outcome' = "win"
                       THEN cfg.base_bet
                       ELSE loss_streak_total' + cfg.base_bet]_vars

\* C16 witness: bot.py, the unknown name "paroli" reached through the cycle
\* by two wins, then a loss under it: the next wager is the base wager.
C16_Witness ==
    /\ cfg.variant = "bot" /\ current_strategy = "paroli" /\ cfg.strategy # "paroli"
    /\ Len(bet_history) = 3 /\ bet_history[2].wl = "WIN" /\ bet_history[3].wl = "LOSE"
    /\ bet_history[3].next_bet = cfg.base_bet /\ current_bet = cfg.base_bet

\* The chance of the last call, clamped to [0.01, 99.99].
ClampedChance ==
    LET c0 == IF override_chance # <<>> THEN override_chance[1] ELSE cfg.chance
    IN  IF c0 < 1 THEN 1 ELSE IF c0 > 9999 THEN 9999 ELSE c0

\* C17 -- Threshold Mapper: for every chance c (clamped to [0.01, 99.99]) and
\* every rule mode the result is (under, c) or (over, 100 - c), fixed by the
\* mode for force-under and force-over and either of the two otherwise; the
\* threshold lies in [0.01, 99.99]; the win chance the pair implies equals c;
\* and the call changes no engine state.
C17_ThresholdMapper ==
    /\ [](placed # <<>> =>
            LET r == placed[1]
                c == ClampedChance
            IN  /\ \/ r.rule = "under" /\ r.bet_value = c
                   \/ r.rule = "over" /\ r.bet_value = 10000 - c
                /\ cfg.rule_mode = "under" => r.rule = "under"
                /\ cfg.rule_mode = "over" => r.rule = "over"
                /\ 1 <= r.bet_value /\ r.bet_value <= 9999
                /\ win_chance(r.rule, r.bet_value) = c)
    /\ [][UNCHANGED <<cfg, pc, current_bet, session_count, ledger, memory, selector>>]_vars

\* C17 witness: rule mode auto, a configured chance of 120 clamped to 99.99,
\* the over rule drawn: threshold 0.01.
C17_Witness ==
    /\ placed # <<>> /\ cfg.rule_mode = "auto" /\ cfg.chance = 12000
    /\ override_chance = <<>>
    /\ placed[1].rule = "over" /\ placed[1].bet_value = 1

\* C18 -- The Wager Calculator raises no error for any Config values: for
\* every strategy, every outcome and every value of the tunables, a pulse
\* interval of 0 included, computing the next wager returns an amount and the
\* round loop continues.
C18_NoError == pc # "error"

\* The round this step resolves is lost, and it is the first loss since the
\* last win (or since the session started).
FirstLossSinceWin ==
    /\ Resolved /\ pc' = "running" /\ last_outcome' # "win"
    /\ (bet_history = <<>> \/ Last(bet_history).wl = "WIN")
\* The round this step resolves is a second or later consecutive loss.
LaterLoss ==
    /\ Resolved /\ pc' = "running" /\ last_outcome' = "lose"
    /\ bet_history # <<>> /\ Last(bet_history).wl = "LOSE"
JackpotActive ==
    current_strategy = "jackpot_hunter" /\ current_strategy' = "jackpot_hunter"

\* C19 -- Under jackpot_hunter the first loss since the last win leaves the
\* wager unchanged (the amount submitted, or the amount the collaborator
\* charged for it) and only the second and later consecutive losses raise
\* it, by a factor within the configured raise range; for every outcome
\* sequence, also when jackpot_hunter was left and re-entered through the
\* strategy cycle or a new session run.
C19_JackpotFirstLoss ==
    /\ [][(JackpotActive /\ FirstLossSinceWin)
            => current_bet' \in {placed'[1].amount, ChargedNow}]_vars
    /\ [][(JackpotActive /\ LaterLoss /\ ~LossSwitchTriggered)
            => \E d \in Draws, start \in {placed'[1].amount, ChargedNow} :
                 current_bet' = RaiseBy(start, cfg.jackpot_raise_min,
                                        cfg.jackpot_raise_max, d)]_vars

\* A round won under the randomized strategy, which stays the active one.
RandomizedWin ==
    /\ Resolved /\ pc' = "running" /\ last_outcome' = "win"
    /\ current_strategy = "randomized" /\ current_strategy' = "randomized"
\* The amount the collaborator charged for the round, as bot.py's last-bet
\* strategies start from it (the base wager if it is not positive).
StartNow == IF ChargedNow > 0 THEN ChargedNow ELSE cfg.base_bet

\* C20 (as claimed) -- Under the randomized strategy the next wager after
\* every winning round is the base wager, in multiplier mode and in uniform
\* mode.
C20_RandomizedWinAsClaimed ==
    [][RandomizedWin => current_bet' = cfg.base_bet]_vars

\* C20 (amended) -- Under the randomized strategy, in bot1.py the next wager
\* after every winning round is the base wager; in bot.py the outcome is not
\* consulted: after a win the next wager is the amount charged for the round
\* times a factor drawn from the configured range (multiplier mode), or an
\* amount drawn between the base wager and the amount charged for the round
\* (uniform mode).
C20_RandomizedWin ==
    [][RandomizedWin =>
        IF cfg.variant = "bot1" THEN current_bet' = cfg.base_bet
        ELSE \E d \in Draws :
                current_bet' =
                    IF cfg.randomized_mode = "multiplier"
                    THEN RaiseBy(StartNow, cfg.randomized_min_mult,
                                 cfg.randomized_max_mult, d)
                    ELSE UniformAmount(cfg.base_bet, StartNow, d)]_vars

\* C20 witness: bot.py, multiplier mode, the first round won at 100 and
\* charged in full, the upper factor 1.5 drawn: the next wager is 150.
C20_Witness ==
    /\ cfg.variant = "bot" /\ current_strategy = "randomized"
    /\ cfg.randomized_mode = "multiplier" /\ rounding = 0
    /\ total_bets = 1 /\ last_outcome = "win" /\ placed[1].amount = cfg.base_bet
    /\ current_bet = 150

\* The randomized strategy draws uniformly: the only mode of bot1.py, the
\* uniform mode of bot.py.
UniformMode == cfg.variant = "bot1" \/ cfg.randomized_mode = "uniform"
\* A round lost under the randomized strategy, which stays the active one.
RandomizedLoss ==
    /\ Resolved /\ pc' = "running" /\ last_outcome' # "win"
    /\ current_strategy = "randomized" /\ current_strategy' = "randomized"
\* w lies between the base wager and the amount a, in either order.
BetweenBaseAnd(a, w) ==
    Min(cfg.base_bet, a) <= w /\ w <= Max(cfg.base_bet, a)

HighRiskWin ==
    /\ Resolved /\ last_outcome' = "win" /\ current_strategy = "high_risk_pulse"
    /\ ~(cfg.variant = "bot" /\ OnWinMode)
\* The count of resolved rounds, this one included, is a positive multiple of
\* the pulse interval.
PulseRound ==
    /\ total_bets' > 0 /\ cfg.high_risk_interval > 0
    /\ total_bets' % cfg.high_risk_interval = 0

\* C22 (as claimed) -- Under high_risk_pulse the next wager after a winning
\* round is the base wager, except when the count of resolved rounds is a
\* positive multiple of the pulse interval, in which case it is a fixed
\* multiple (2 or 5) of the base wager; the wager raised during a loss streak
\* is not carried past the win.
C22_PulseWinAsClaimed ==
    [][(HighRiskWin /\ pc' = "running") =>
        IF PulseRound
        THEN current_bet' \in {2 * cfg.base_bet, 5 * cfg.base_bet}
        ELSE current_bet' = cfg.base_bet]_vars

\* C22 (amended) -- Under high_risk_pulse, after a winning round: in bot1.py
\* the next wager is the base wager, or 5 x the base wager when the count of
\* resolved rounds is a positive multiple of the pulse interval, and a wager
\* raised during a loss streak is not carried past the win; in bot.py the next
\* wager starts from the amount charged for the winning round (the base
\* wager only if that amount is not positive): it is that amount, or twice
\* that amount on a pulse round, so a raised wager is carried past the win.
\* With a pulse interval of 0 the computation raises instead.
C22_PulseWin ==
    [][HighRiskWin =>
        IF cfg.high_risk_interval = 0 THEN pc' = "error"
        ELSE /\ pc' = "running"
             /\ current_bet' =
                    IF cfg.variant = "bot1"
                    THEN (IF PulseRound THEN 5 * cfg.base_bet ELSE cfg.base_bet)
                    ELSE (IF PulseRound THEN 2 * StartNow ELSE StartNow)]_vars

\* C22 witness: bot1.py, interval 2: a win, a loss at 100 that raises the
\* wager to 200, a win at 200 on the third round: the next wager is 100.
C22_Witness ==
    /\ cfg.variant = "bot1" /\ current_strategy = "high_risk_pulse"
    /\ cfg.high_risk_interval = 2 /\ Len(bet_history) = 3
    /\ bet_history[1].wl = "WIN" /\ bet_history[2].wl = "LOSE"
    /\ bet_history[2].next_bet = 2 * cfg.base_bet
    /\ bet_history[3].wl = "WIN" /\ placed[1].amount = 2 * cfg.base_bet
    /\ current_bet = cfg.base_bet

\* A resolved round whose record is appended to the history.
Recorded ==
    /\ Resolved /\ pc' = "running"
    /\ Len(bet_history') = Len(bet_history) + 1

\* C23 (as claimed) -- The record emitted for each resolved round carries
\* that round's own profit delta: +payout for a win and -(amount charged in
\* that round) for a loss, also for the second and later losses of a streak.
C23_RecordDeltaAsClaimed ==
    [][(Resolved /\ pc' = "running") =>
        /\ Recorded
        /\ Last(bet_history').profit = session_profit' - session_profit]_vars

\* C23 (amended) -- The record emitted for each resolved round carries
\* +payout for a win, and for a loss minus the cumulative loss of the current
\* streak, that round included: the round's own delta only for the first
\* loss of a streak, the sum of the amounts charged since the last win for
\* the later ones (a loss-streak strategy switch does not restart the sum).
\* A round whose wager computation raises emits no record.
C23_RecordDelta ==
    [][Resolved =>
        IF pc' = "error" THEN bet_history' = bet_history
        ELSE /\ Recorded
             /\ Last(bet_history').profit =
                    IF last_outcome' = "win" THEN session_profit' - session_profit
                    ELSE 0 - (loss_streak_total + ChargedNow)]_vars

\* C23 witness: flat in bot.py, two losses charged 100 each: the record of
\* the second loss shows -200.
C23_Witness ==
    /\ cfg.variant = "bot" /\ cfg.strategy = "flat" /\ rounding = 0
    /\ Len(bet_history) = 2 /\ lose_count = 2
    /\ bet_history[1].profit = 0 - cfg.base_bet
    /\ bet_history[2].profit = 0 - 2 * cfg.base_bet
    /\ session_profit = 0 - 2 * cfg.base_bet

\* A round resolved by bot1.py after which the round loop continues.
Resolved1 == cfg.variant = "bot1" /\ Resolved /\ pc' = "running"
\* What cover-loss asks for after this step's loss.
CoverNeeded == loss_streak_total' + cfg.base_bet
\* The wager the active strategy of bot1.py computes on its own for this
\* step's round, under the draw d.
OwnNext(d) ==
    NextBet1(current_strategy, last_outcome' = "win", current_bet, last_outcome',
             last_loss_amount', total_bets + 1, d).bet

\* C24 -- Cover-loss (bot1.py): after every losing round, for every strategy
\* (and with any strategy switch the round triggers), the next wager is at
\* least the cumulative loss of the current streak plus one base wager, and it
\* equals the strategy's own next wager whenever that is already at least
\* this amount; after a win the next wager is the strategy's own: cover-loss
\* is never applied.
C24_CoverLoss ==
    [][Resolved1 =>
        IF last_outcome' = "win"
        THEN \E d \in Draws : current_bet' = OwnNext(d)
        ELSE /\ current_bet' >= CoverNeeded
             /\ \E d \in Draws :
                    current_bet' = IF OwnNext(d) >= CoverNeeded THEN OwnNext(d)
                                   ELSE CoverNeeded]_vars

\* C24 witness: bot1.py, martingale with multiplier 3, one loss at 100:
\* cover-loss asks for 200 and the strategy's own 300 is the next wager.
C24_Witness ==
    /\ cfg.variant = "bot1" /\ cfg.strategy = "martingale" /\ cfg.multiplier = 300
    /\ rounding = 0 /\ lose_count = 1 /\ total_bets = 1
    /\ loss_streak_total = cfg.base_bet /\ current_bet = 3 * cfg.base_bet

\* The chance jackpot_hunter and high_risk_pulse set as their override.
StrategyChance(s) ==
    IF s = "jackpot_hunter" THEN cfg.jackpot_chance ELSE cfg.high_risk_chance
\* A pass of bot1.py's round loop that submits a wager which jackpot_hunter
\* or high_risk_pulse computed: the strategy was never switched and a round
\* was resolved before.
OverrideDue ==
    /\ cfg.variant = "bot1" /\ Pass /\ ~cfg.auto_strategy_change
    /\ current_strategy \in {"jackpot_hunter", "high_risk_pulse"}
    /\ total_bets >= 1

\* C25 -- Chance override (bot1.py): when jackpot_hunter or high_risk_pulse
\* computed the wager for the coming round, that round is submitted with the
\* threshold derived from the strategy's own chance (jackpot_chance /
\* high_risk_chance) instead of the configured chance.
C25_ChanceOverride ==
    [][OverrideDue =>
        LET c == StrategyChance(current_strategy)
        IN  \/ placed'[1].rule = "under" /\ placed'[1].bet_value = c
            \/ placed'[1].rule = "over" /\ placed'[1].bet_value = 10000 - c]_vars

\* The strategies bot.py starts from the last amount placed.
LastBetStrategies == {"jackpot_hunter", "high_risk_pulse", "randomized"}

\* C26 -- Reseed policy on a switch (bot.py): immediately after any strategy
\* switch, in either trigger mode, the next wager is the base wager when the
\* new strategy is martingale, fibonacci, flat or an unknown name, and the
\* amount the collaborator reported for the round just resolved when the new
\* strategy is jackpot_hunter, high_risk_pulse or randomized; the wager the
\* old strategy had just computed is discarded.
C26_ReseedOnSwitch ==
    [][(cfg.variant = "bot" /\ SwitchStep) =>
        current_bet' = IF current_strategy' \in LastBetStrategies
                       THEN ChargedNow ELSE cfg.base_bet]_vars

\* C26 witness: bot.py, on_win cycle [martingale, randomized]: a loss at 100,
\* a win at 200; martingale computed 100 for the win, the switch to
\* randomized re-seeds the next wager to the 200 just placed.
C26_Witness ==
    /\ cfg.variant = "bot" /\ OnWinMode /\ rounding = 0
    /\ cfg.strategy = "martingale" /\ current_strategy = "randomized"
    /\ total_bets = 2 /\ last_outcome = "win"
    /\ placed[1].amount = 2 * cfg.base_bet /\ current_bet = 2 * cfg.base_bet

\* A pass of the round loop whose submission brought a usable result.
UsablePass ==
    /\ pc = "running" /\ pc' \in {"running", "error"}
    /\ placed' # <<>> /\ placed'[1].ok
\* A pass of the round loop whose submission brought none.
FailedPass ==
    /\ pc = "running" /\ pc' = "running"
    /\ placed' # <<>> /\ ~placed'[1].ok

\* C27 -- At every round boundary of a session the total round count is the
\* won count plus the lost count and the history holds exactly one record per
\* resolved round; each resolved round increments the total by exactly one
\* and exactly one of won / lost by one; a pass that resolves no round changes
\* none of them. (The round whose wager computation raises is counted and
\* ends the program before its record is written: no round boundary follows.)
C27_Counts ==
    /\ [](total_bets = win_count + lose_count)
    /\ [](pc # "error" => Len(bet_history) = total_bets)
    /\ [](pc = "error" => Len(bet_history) = total_bets - 1)
    /\ [][UsablePass =>
            /\ total_bets' = total_bets + 1
            /\ \/ win_count' = win_count + 1 /\ lose_count' = lose_count
               \/ win_count' = win_count /\ lose_count' = lose_count + 1
            /\ (last_outcome' = "win") = (win_count' = win_count + 1)]_vars
    /\ [][FailedPass =>
            UNCHANGED <<total_bets, win_count, lose_count, bet_history>>]_vars

\* C27 witness: two losses and a win resolved, then a failed submission:
\* three rounds counted, three records.
C27_Witness ==
    /\ pc = "running" /\ placed # <<>> /\ ~placed[1].ok
    /\ total_bets = 3 /\ win_count = 1 /\ lose_count = 2
    /\ Len(bet_history) = 3 /\ Last(bet_history).wl = "WIN"

\* C28 -- Selector consistency: in every reachable state the cycle index is
\* within [0, length of cycle) and the active strategy equals
\* strategy_cycle[index], also before the first switch when the configured
\* start strategy is not a member of the configured cycle (so that a full
\* pass of len(cycle) switches visits every entry once and returns to the
\* starting strategy).
C28_SelectorConsistent ==
    /\ 0 <= strategy_index /\ strategy_index < Len(cfg.strategy_cycle)
    /\ current_strategy = cfg.strategy_cycle[strategy_index + 1]

\* The last submission returned a usable result whose outcome is a loss
\* charged at a positive amount.
LastWasLoss ==
    /\ placed # <<>> /\ placed[1].ok
    /\ last_outcome = "lose" /\ last_loss_amount > 0
\* Every round of the session so far was lost at a positive wager.
OnlyLosses ==
    /\ win_count = 0
    /\ \A i \in 1 .. Len(bet_history) :
            bet_history[i].wl = "LOSE" /\ bet_history[i].next_bet > 0
\* A pass whose submission fails, taken while no stop bound is reached.
FailingPass ==
    /\ pc = "running" /\ ~BoundReached
    /\ placed' # <<>> /\ ~placed'[1].ok

\* C29 -- Liveness of the stop-loss: if from some point on every submission
\* returns a usable result whose outcome is a loss charged at a positive
\* amount, the session eventually reaches the stop-loss halt, for every
\* strategy and switch mode (a session that only loses reaches the stop-loss
\* bound within the rounds explored, and every such loss lowers the profit);
\* conversely, a pass whose submission fails counts no round and leaves the
\* session running with no stop bound reached, so while every submission
\* fails the session never halts.
C29_StopLossLive ==
    /\ (<>[]LastWasLoss) => <>(pc = "stop_loss")
    /\ []((pc = "running" /\ OnlyLosses /\ total_bets = MaxRounds)
            => session_profit <= cfg.stop_loss)
    /\ [][(Resolved /\ last_outcome' = "lose" /\ last_loss_amount' > 0)
            => session_profit' < session_profit]_vars
    /\ [][FailingPass =>
            /\ pc' = "running" /\ ~BoundReached'
            /\ total_bets' = total_bets]_vars

\* C29 witness: fibonacci with a switch cycle on loss streaks, a win and then
\* only losses: halted on the stop-loss.
C29_Witness ==
    /\ pc = "stop_loss" /\ cfg.auto_strategy_change
    /\ cfg.strategy_switch_mode = "on_loss_streak"
    /\ win_count = 1 /\ bet_history[1].wl = "WIN" /\ lose_count >= 2
    /\ LastWasLoss /\ session_profit <= cfg.stop_loss

\* C30 -- Bounded overshoot (bot.py): with a ceiling configured (max_bet > 0),
\* stop_loss <= 0 and the collaborator charging the amount it was sent, the
\* session profit is strictly greater than stop_loss - max_bet in every
\* reachable state of a session, for every strategy and outcome sequence.
C30_BoundedOvershoot ==
    (cfg.variant = "bot" /\ cfg.max_bet > 0 /\ cfg.stop_loss <= 0 /\ rounding = 0)
        => session_profit > cfg.stop_loss - cfg.max_bet

\* C30 witness: martingale under a ceiling of 250: the wager computed as 400
\* is submitted at the ceiling and lost, and the profit ends below the
\* stop-loss bound, by less than the ceiling.
C30_Witness ==
    /\ cfg.variant = "bot" /\ cfg.max_bet = 250 /\ rounding = 0
    /\ cfg.strategy = "martingale" /\ placed # <<>> /\ placed[1].ok
    /\ placed[1].amount = cfg.max_bet /\ last_outcome = "lose"
    /\ session_profit < cfg.stop_loss
    /\ session_profit > cfg.stop_loss - cfg.max_bet

\* A usable result whose state is neither "win" nor "lose" (a missing or
\* unrecognised state) is resolved by this step.
OtherStateRound == Resolved /\ last_outcome' = "None"
\* The next wager the on-loss rule of the active strategy gives for this
\* step's round under the draw d: what the same round computes when its
\* state is "lose" (in bot1.py with cover-loss applied).
OnLossWager(d) ==
    IF cfg.variant = "bot"
    THEN NextBet(current_strategy, FALSE, placed'[1].amount, "lose", ChargedNow,
                 ChargedNow, total_bets + 1, d).bet
    ELSE LET own == NextBet1(current_strategy, FALSE, placed'[1].amount, "lose",
                             ChargedNow, total_bets + 1, d).bet
             cover == loss_streak_total + ChargedNow + cfg.base_bet
         IN  IF own < cover THEN cover ELSE own

\* C31 -- Outcome classification: a usable result whose state is anything
\* other than "win" (a missing or unrecognised state included) is processed
\* exactly as a loss: the lost count and the streak counter are incremented
\* (the counter reset if the loss triggers a switch), the charged amount is
\* subtracted from the profit and the strategy's on-loss rule gives the next
\* wager (unless a switch of bot.py re-seeds it).
C31_OtherStateIsLoss ==
    [][OtherStateRound =>
        /\ pc' = "running"
        /\ lose_count' = lose_count + 1 /\ win_count' = win_count
        /\ loss_streak_count' = IF LossSwitchTriggered THEN 0 ELSE loss_streak_count + 1
        /\ session_profit' = session_profit - ChargedNow
        /\ loss_streak_total' = loss_streak_total + ChargedNow
        /\ (cfg.variant = "bot" /\ LossSwitchTriggered)
                \/ \E d \in Draws : current_bet' = OnLossWager(d)]_vars

\* jackpot_hunter is the only strategy of the run: the configured one, and
\* the only entry of the cycle.
JackpotOnly ==
    /\ cfg.strategy = "jackpot_hunter"
    /\ \A i \in 1 .. Len(cfg.strategy_cycle) : cfg.strategy_cycle[i] = "jackpot_hunter"
\* A pass of bot.py's round loop that follows an earlier submission of the
\* same session, with the raise factors at least 1 and exact charging.
NextSubmission ==
    /\ cfg.variant = "bot" /\ Pass /\ placed # <<>>
    /\ rounding = 0
    /\ cfg.jackpot_raise_min >= 100 /\ cfg.jackpot_raise_max >= 100

\* C32 -- Monotone escalation (bot.py): while jackpot_hunter stays the active
\* strategy, the raise factors are >= 1 and the collaborator charges the
\* amount it was sent, the sequence of submitted wagers within a session
\* never decreases -- a win does not bring the wager back to the base wager
\* -- and it stays at the ceiling once the ceiling has been reached.
C32_MonotoneEscalation ==
    [][(NextSubmission /\ JackpotOnly) =>
        /\ placed'[1].amount >= placed[1].amount
        /\ (cfg.max_bet > 0 /\ placed[1].amount = cfg.max_bet)
                => placed'[1].amount = cfg.max_bet]_vars

\* C32 witness: ceiling 104: two losses at 100, the raise to 105 submitted at
\* 104 and won, and the fourth round submitted at 104 again.
C32_Witness ==
    /\ cfg.variant = "bot" /\ JackpotOnly /\ cfg.max_bet = 104 /\ rounding = 0
    /\ total_bets = 4 /\ Len(bet_history) = 4
    /\ bet_history[2].next_bet > cfg.max_bet /\ bet_history[3].wl = "WIN"
    /\ bet_history[3].next_bet = cfg.max_bet
    /\ placed[1].ok /\ placed[1].amount = cfg.max_bet

====
